---- MODULE Spec2Model ----
(***************************************************************************)
(* Model of the to-do API backend: JWT authentication (middleware/auth.py),*)
(* the auth routes (routes/auth.py) and the task routes (routes/tasks.py). *)
(* Every HTTP handler is one atomic action; the response it sends is kept  *)
(* in `resp` until the client has received it (Deliver).  Where several    *)
(* worker processes serve requests at once, a handler is split at its      *)
(* commit: what it has read is kept in `sessions`.                         *)
(* Time is counted in days.                                                *)
(***************************************************************************)
EXTENDS Integers, Sequences, FiniteSets, TLC

VARIABLES
    users,      \* the users table: set of User rows
    tasks,      \* the tasks table: set of Task rows
    next_id,    \* the tasks.id sequence of the database
    now,        \* datetime.utcnow(), in days
    issued,     \* history: every call of create_jwt_token so far, as
                \* [subject, at, token]
    signed_out, \* history: the users who called signout with a token of theirs
    last_toggle, \* history, kept for the task ids in its domain: the completed
                \* flag before the successive toggles that are the latest
                \* writes of the task, and whether the task was deleted
    resp,       \* the response in flight (Idle when none)
    sessions    \* the requests the worker processes in its domain are in the
                \* middle of: what each has read and has not yet committed

vars == <<users, tasks, next_id, now, issued, signed_out, last_toggle, resp, sessions>>

(* ---------------------------- bounds ----------------------------------- *)
MaxTime   == 8      \* the clock stops here
MaxClock  == 1      \* the clock stops here in the task-centred specification
MaxTasks  == 1      \* rows ever inserted in the tasks table
MaxIssued == 2      \* tokens ever issued
MaxWorkers == 2     \* worker processes serving requests at the same time

(* ------------------------ program constants ---------------------------- *)
TOKEN_EXPIRE_DAYS == 7
MIN_PASSWORD_LENGTH == 6
HTTP_200_OK == 200
HTTP_201_CREATED == 201
HTTP_204_NO_CONTENT == 204
HTTP_400_BAD_REQUEST == 400
HTTP_401_UNAUTHORIZED == 401
HTTP_403_FORBIDDEN == 403
HTTP_404_NOT_FOUND == 404
HTTP_422_UNPROCESSABLE_ENTITY == 422
HTTP_500_INTERNAL_SERVER_ERROR == 500

BETTER_AUTH_SECRET == "secret"
ALGORITHMS == {"HS256"}

(* --------------------------- value domains ----------------------------- *)
None    == "<None>"          \* Python None where a string is expected
NoClaim == -1                \* a numeric claim that the payload lacks
NoTask  == [id |-> 0]        \* session.get(...) returning None
NoCred  == [kind |-> "absent"]     \* header / cookie not sent
EmptyStr == [kind |-> "empty"]     \* a cookie sent with the value ""

UserIdOrder == <<"u1", "u2">>            \* values uuid.uuid4() produces
UserIds   == {UserIdOrder[i] : i \in 1 .. Len(UserIdOrder)}
Emails    == {"a@x.com", "b@x.com"}
Passwords == {"12345", "123456"}
PathUsers == UserIds \cup {"U1"}         \* the {user_id} path segment

Jwt(alg, key, sub, iat, exp) ==
    [kind |-> "jwt", alg |-> alg, key |-> key, sub |-> sub, iat |-> iat, exp |-> exp]

Garbage == [kind |-> "garbage"]    \* a string that is not a compact JWS

(* ------------------------------ PyJWT ---------------------------------- *)
\* jwt.decode(token, key, algorithms=[...]) evaluated at time t: the structure
\* is parsed, the header's alg must be one of `algorithms`, the signature must
\* verify under `key`, then the registered claims iat and exp are validated.
jwt_decode(token, key, algorithms, t) ==
    IF token.kind # "jwt" THEN [err |-> "DecodeError", sub |-> None]
    ELSE IF token.alg \notin algorithms THEN [err |-> "InvalidAlgorithmError", sub |-> None]
    ELSE IF token.key # key THEN [err |-> "InvalidSignatureError", sub |-> None]
    ELSE IF token.iat # NoClaim /\ token.iat > t THEN [err |-> "ImmatureSignatureError", sub |-> None]
    ELSE IF token.exp # NoClaim /\ token.exp <= t THEN [err |-> "ExpiredSignatureError", sub |-> None]
    ELSE [err |-> "ok", sub |-> token.sub]

\* jwt.encode(payload, key, algorithm)
jwt_encode(payload, key, algorithm) ==
    Jwt(algorithm, key, payload.sub, payload.iat, payload.exp)

(* ------------------------ middleware/auth.py --------------------------- *)
\* What the dependency hands to the endpoint: either an identity (status 200)
\* or the HTTPException it raised.  `token` is the token it extracted and
\* `decoded` tells whether jwt.decode was called on it.
AuthError(code, detail, token, decoded) ==
    [status |-> code, detail |-> detail, user_id |-> None, token |-> token, decoded |-> decoded]

AuthOk(user_id, token) ==
    [status |-> HTTP_200_OK, detail |-> "", user_id |-> user_id, token |-> token, decoded |-> TRUE]

\* extract_token with the two lookups swapped: the cookie is looked at first
extract_token_cookie_first(credentials, cookies) ==
    IF cookies # NoCred THEN cookies
    ELSE IF credentials # NoCred THEN credentials
    ELSE NoCred

\* lines 34-41: the header is looked at first, the cookie only without a header
extract_token(credentials, cookies) ==
    IF credentials # NoCred THEN credentials
    ELSE IF cookies # NoCred THEN cookies
    ELSE NoCred

\* validate_token calling jwt.decode with options={"verify_signature": False}:
\* the payload of any well-formed token is taken as it is
validate_token_unverified(token) ==
    IF token.kind # "jwt"
        THEN AuthError(HTTP_401_UNAUTHORIZED, "Invalid token", token, TRUE)
    ELSE IF token.sub = None
        THEN AuthError(HTTP_401_UNAUTHORIZED, "Invalid authentication credentials", token, TRUE)
    ELSE AuthOk(token.sub, token)

\* lines 51-82: the try block around jwt.decode
validate_token(token) ==
    LET r == jwt_decode(token, BETTER_AUTH_SECRET, ALGORITHMS, now) IN
    IF r.err = "ExpiredSignatureError"
        THEN AuthError(HTTP_401_UNAUTHORIZED, "Token has expired", token, TRUE)
    ELSE IF r.err # "ok"
        THEN AuthError(HTTP_401_UNAUTHORIZED, "Invalid token", token, TRUE)
    ELSE IF r.sub = None
        THEN AuthError(HTTP_401_UNAUTHORIZED, "Invalid authentication credentials", token, TRUE)
    ELSE AuthOk(r.sub, token)

\* get_current_user_id without the `if not token` check: a missing token goes
\* to jwt.decode
get_current_user_id_decode_always(credentials, cookies) ==
    validate_token(extract_token(credentials, cookies))

\* get_current_user_id behind HTTPBearer(auto_error=True): a request without
\* a Bearer header is refused by the security scheme with 403
get_current_user_id_auto_error(credentials, cookies) ==
    IF credentials = NoCred
        THEN AuthError(HTTP_403_FORBIDDEN, "Not authenticated", NoCred, FALSE)
    ELSE validate_token(credentials)

\* get_current_user_id consulting a revocation list that signout fills
get_current_user_id_revoked(credentials, cookies) ==
    LET token == extract_token(credentials, cookies) IN
    IF token = NoCred \/ token = EmptyStr
        THEN AuthError(HTTP_401_UNAUTHORIZED, "No authentication credentials provided", token, FALSE)
    ELSE IF token.kind = "jwt" /\ token.sub \in signed_out
        THEN AuthError(HTTP_401_UNAUTHORIZED, "Token has been revoked", token, TRUE)
    ELSE validate_token(token)

get_current_user_id(credentials, cookies) ==
    LET token == extract_token(credentials, cookies) IN
    IF token = NoCred \/ token = EmptyStr
        THEN AuthError(HTTP_401_UNAUTHORIZED, "No authentication credentials provided", token, FALSE)
    ELSE validate_token(token)

(* ------------------------- utils/security.py --------------------------- *)
\* A str is a sequence of characters and a bytes value a sequence of octet
\* groups.  The characters that matter to the stored format are the
\* delimiter, a character outside the base64 alphabet, a base64 quantum
\* (the four characters that encode one octet group) and a lone alphabet
\* character, which leaves the length of its string wrong for base64.
Dollar == [c |-> "$"]
Junk == [c |-> "!"]
LoneB64 == [c |-> "A"]
Quantum(group) == [c |-> "b64", of |-> group]

\* the exception classes of the try block, with their base classes
Bases(exc) ==
    IF exc \in {"binascii.Error", "UnicodeEncodeError"} THEN {exc, "ValueError", "Exception"}
    ELSE {exc, "Exception"}
Returns(value) == [exc |-> "none", value |-> value]
Raises(exc) == [exc |-> exc, value |-> FALSE]

\* base64.b64encode(b).decode('ascii')
b64encode(b) == [i \in 1 .. Len(b) |-> Quantum(b[i])]

\* base64.b64decode(s): characters outside the alphabet are discarded
\* (validate=False); what is left must be whole quanta
b64decode(s) ==
    LET InAlphabet(ch) == ch.c \in {"b64", "A"}
        kept == SelectSeq(s, InAlphabet)
    IN  IF \E i \in 1 .. Len(kept) : kept[i] = LoneB64
            THEN Raises("binascii.Error")
            ELSE Returns([i \in 1 .. Len(kept) |-> kept[i].of])

\* s.split(sep)
RECURSIVE split(_, _)
split(s, sep) ==
    IF \A i \in 1 .. Len(s) : s[i] # sep THEN <<s>>
    ELSE LET k == CHOOSE i \in 1 .. Len(s) : s[i] = sep /\ \A j \in 1 .. (i - 1) : s[j] # sep
         IN  <<SubSeq(s, 1, k - 1)>> \o split(SubSeq(s, k + 1, Len(s)), sep)

\* hashlib.pbkdf2_hmac('sha256', password, salt, 100000): a function of the
\* password and the salt, taken to be collision-free.
pbkdf2_hmac(password, salt) == <<[kdf |-> "pbkdf2_hmac", password |-> password, salt |-> salt]>>

\* hash_password deriving the hash from another salt than the one it stores
hash_password_salt_not_stored(password, salt) ==
    b64encode(salt) \o <<Dollar>> \o b64encode(pbkdf2_hmac(password, salt \o salt))

\* salt$hash, for the salt os.urandom(32) returned
hash_password(password, salt) ==
    b64encode(salt) \o <<Dollar>> \o b64encode(pbkdf2_hmac(password, salt))

\* the try block of verify_password
verify_password_try(plain_password, hashed_password) ==
    LET parts == split(hashed_password, Dollar) IN
    IF Len(parts) # 2 THEN Raises("ValueError")
    ELSE LET salt == b64decode(parts[1])
             stored_hash == b64decode(parts[2])
         IN  IF salt.exc # "none" THEN salt
             ELSE IF stored_hash.exc # "none" THEN stored_hash
             ELSE Returns(pbkdf2_hmac(plain_password, salt.value) = stored_hash.value)

\* verify_password with `except IndexError` alone
verify_password_catch_index_only(plain_password, hashed_password) ==
    LET outcome == verify_password_try(plain_password, hashed_password) IN
    IF outcome.exc # "none" /\ Bases(outcome.exc) \cap {"IndexError"} # {}
        THEN Returns(FALSE)
        ELSE outcome

\* except (ValueError, IndexError): return False
verify_password(plain_password, hashed_password) ==
    LET outcome == verify_password_try(plain_password, hashed_password) IN
    IF outcome.exc # "none" /\ Bases(outcome.exc) \cap {"ValueError", "IndexError"} # {}
        THEN Returns(FALSE)
        ELSE outcome

(* --------------------------- routes/auth.py ---------------------------- *)
\* create_jwt_token putting the id under the key "user_id" instead of "sub"
create_jwt_token_no_sub(user_id) ==
    jwt_encode([sub |-> None, iat |-> now, exp |-> now + TOKEN_EXPIRE_DAYS],
               BETTER_AUTH_SECRET, "HS256")

\* create_jwt_token with timedelta(days=30)
create_jwt_token_30_days(user_id) ==
    jwt_encode([sub |-> user_id, iat |-> now, exp |-> now + 30],
               BETTER_AUTH_SECRET, "HS256")

create_jwt_token(user_id) ==
    jwt_encode([sub |-> user_id, iat |-> now, exp |-> now + TOKEN_EXPIRE_DAYS],
               BETTER_AUTH_SECRET, "HS256")

(* ------------------------ requests and responses ----------------------- *)
NoBody == [kind |-> "nobody"]
NoResult == [kind |-> "noresult"]
NoAuth == [status |-> 0, detail |-> "", user_id |-> None, token |-> NoCred, decoded |-> FALSE]

Request(op, credentials, cookies, user_id, task_id, body) ==
    [op |-> op, credentials |-> credentials, cookies |-> cookies,
     user_id |-> user_id, task_id |-> task_id, body |-> body]

\* the response to req: `auth` is what get_current_user_id produced, `ran`
\* tells whether the endpoint function was entered
Response(req, auth, status, detail, ran, result) ==
    [req |-> req, auth |-> auth, status |-> status, detail |-> detail,
     ran |-> ran, result |-> result]

Idle == Response(Request("idle", NoCred, NoCred, None, 0, NoBody), NoAuth, 0, "", FALSE, NoResult)

\* raise HTTPException(...): nothing was committed
Raise(req, auth, status, detail, ran) ==
    /\ resp' = Response(req, auth, status, detail, ran, NoResult)
    /\ UNCHANGED <<sessions, users, tasks, next_id, now, issued, signed_out, last_toggle>>

\* the dependency get_current_user_id raised: the endpoint is not entered
Denied(req, auth) == Raise(req, auth, auth.status, auth.detail, FALSE)

\* the history of a task id that nothing else has written since: `was` is the
\* completed flag before the first of the successive toggles ("open" /
\* "done"), `toggles` tells whether one or two of them (counting two by two)
\* were served; a served delete is recorded as "deleted"
NoRun == [was |-> "none", toggles |-> 0]
Remember(task_id, write, completed) ==
    [i \in DOMAIN last_toggle |->
        IF i # task_id THEN last_toggle[i]
        ELSE IF write = "delete" THEN [was |-> "deleted", toggles |-> 0]
        ELSE IF write # "toggle" THEN NoRun
        ELSE IF last_toggle[i].was \in {"open", "done"}
            THEN [last_toggle[i] EXCEPT !.toggles = IF @ = 1 THEN 2 ELSE 1]
        ELSE [was |-> IF completed THEN "done" ELSE "open", toggles |-> 1]]

\* session.get(Task, task_id)
session_get_task(task_id) ==
    IF \E t \in tasks : t.id = task_id
        THEN CHOOSE t \in tasks : t.id = task_id
        ELSE NoTask

\* session.get(User, user_id)
session_get_user(user_id) ==
    IF \E u \in users : u.id = user_id
        THEN CHOOSE u \in users : u.id = user_id
        ELSE [id |-> None]

(* --------------------------- routes/tasks.py --------------------------- *)
\* list_tasks without the comparison of the path user_id with the token's
list_tasks_unguarded(credentials, cookies, user_id) ==
    LET req  == Request("list_tasks", credentials, cookies, user_id, 0, NoBody)
        auth == get_current_user_id(credentials, cookies)
    IN  /\ resp = Idle
        /\ IF auth.status # HTTP_200_OK THEN Denied(req, auth)
           ELSE /\ resp' = Response(req, auth, HTTP_200_OK, "", TRUE,
                                    [kind |-> "tasks", tasks |-> {t \in tasks : t.user_id = user_id}])
                /\ UNCHANGED <<sessions, users, tasks, next_id, now, issued, signed_out, last_toggle>>

\* list_tasks selecting without the user_id filter
list_tasks_unfiltered(credentials, cookies, user_id) ==
    LET req  == Request("list_tasks", credentials, cookies, user_id, 0, NoBody)
        auth == get_current_user_id(credentials, cookies)
    IN  /\ resp = Idle
        /\ IF auth.status # HTTP_200_OK THEN Denied(req, auth)
           ELSE IF user_id # auth.user_id
                THEN Raise(req, auth, HTTP_403_FORBIDDEN, "Unauthorized access to user's tasks", TRUE)
           ELSE /\ resp' = Response(req, auth, HTTP_200_OK, "", TRUE,
                                    [kind |-> "tasks", tasks |-> tasks])
                /\ UNCHANGED <<sessions, users, tasks, next_id, now, issued, signed_out, last_toggle>>

list_tasks(credentials, cookies, user_id) ==
    LET req  == Request("list_tasks", credentials, cookies, user_id, 0, NoBody)
        auth == get_current_user_id(credentials, cookies)
    IN  /\ resp = Idle
        /\ IF auth.status # HTTP_200_OK THEN Denied(req, auth)
           ELSE IF user_id # auth.user_id
                THEN Raise(req, auth, HTTP_403_FORBIDDEN, "Unauthorized access to user's tasks", TRUE)
           ELSE /\ resp' = Response(req, auth, HTTP_200_OK, "", TRUE,
                                    [kind |-> "tasks", tasks |-> {t \in tasks : t.user_id = user_id}])
                /\ UNCHANGED <<sessions, users, tasks, next_id, now, issued, signed_out, last_toggle>>

\* the request body against TaskCreate: title is a required str (any length),
\* description an optional str, completed a bool that may be left out
TaskCreate_invalid(json) ==
    \/ "title" \notin DOMAIN json.vals
    \/ "completed" \in json.nulls

\* TaskCreate(**json): the fields left out take their defaults
TaskCreate(json) ==
    [title |-> json.vals.title,
     description |-> IF "description" \in DOMAIN json.vals THEN json.vals.description ELSE None,
     completed |-> IF "completed" \in DOMAIN json.vals THEN json.vals.completed ELSE FALSE]

\* create_task storing every new task as not completed, whatever the body says
create_task_forced_open(credentials, cookies, user_id, json, limit) ==
    LET req  == Request("create_task", credentials, cookies, user_id, 0, json)
        auth == get_current_user_id(credentials, cookies)
        task == TaskCreate(json)
        db_task == [id |-> next_id, user_id |-> user_id, title |-> task.title,
                    description |-> task.description, completed |-> FALSE,
                    created_at |-> now, updated_at |-> now]
    IN  /\ resp = Idle
        /\ IF auth.status # HTTP_200_OK THEN Denied(req, auth)
           ELSE IF TaskCreate_invalid(json)
                THEN Raise(req, auth, HTTP_422_UNPROCESSABLE_ENTITY, "Field required", FALSE)
           ELSE IF user_id # auth.user_id
                THEN Raise(req, auth, HTTP_403_FORBIDDEN, "Unauthorized access", TRUE)
           ELSE /\ next_id <= limit
                /\ tasks' = tasks \cup {db_task}
                /\ next_id' = next_id + 1
                /\ resp' = Response(req, auth, HTTP_201_CREATED, "", TRUE,
                                    [kind |-> "task", task |-> db_task])
                /\ UNCHANGED <<sessions, users, now, issued, signed_out, last_toggle>>

\* create_task without the comparison of the path user_id with the token's
create_task_unguarded(credentials, cookies, user_id, json, limit) ==
    LET req  == Request("create_task", credentials, cookies, user_id, 0, json)
        auth == get_current_user_id(credentials, cookies)
        task == TaskCreate(json)
        db_task == [id |-> next_id, user_id |-> user_id, title |-> task.title,
                    description |-> task.description, completed |-> task.completed,
                    created_at |-> now, updated_at |-> now]
    IN  /\ resp = Idle
        /\ IF auth.status # HTTP_200_OK THEN Denied(req, auth)
           ELSE IF TaskCreate_invalid(json)
                THEN Raise(req, auth, HTTP_422_UNPROCESSABLE_ENTITY, "Field required", FALSE)
           ELSE /\ next_id <= limit
                /\ tasks' = tasks \cup {db_task}
                /\ next_id' = next_id + 1
                /\ resp' = Response(req, auth, HTTP_201_CREATED, "", TRUE,
                                    [kind |-> "task", task |-> db_task])
                /\ UNCHANGED <<sessions, users, now, issued, signed_out, last_toggle>>

\* `json` is the request body, validated into `task: TaskCreate` before the
\* function is entered; `limit` caps the rows ever inserted
create_task(credentials, cookies, user_id, json, limit) ==
    LET req  == Request("create_task", credentials, cookies, user_id, 0, json)
        auth == get_current_user_id(credentials, cookies)
        task == TaskCreate(json)
        db_task == [id |-> next_id, user_id |-> user_id, title |-> task.title,
                    description |-> task.description, completed |-> task.completed,
                    created_at |-> now, updated_at |-> now]
    IN  /\ resp = Idle
        /\ IF auth.status # HTTP_200_OK THEN Denied(req, auth)
           ELSE IF TaskCreate_invalid(json)
                THEN Raise(req, auth, HTTP_422_UNPROCESSABLE_ENTITY, "Field required", FALSE)
           ELSE IF user_id # auth.user_id
                THEN Raise(req, auth, HTTP_403_FORBIDDEN, "Unauthorized access", TRUE)
           ELSE /\ next_id <= limit
                /\ tasks' = tasks \cup {db_task}
                /\ next_id' = next_id + 1
                /\ resp' = Response(req, auth, HTTP_201_CREATED, "", TRUE,
                                    [kind |-> "task", task |-> db_task])
                /\ UNCHANGED <<sessions, users, now, issued, signed_out, last_toggle>>

\* get_task telling a task of another user (403) from a missing one (404)
get_task_forbidden(credentials, cookies, user_id, task_id) ==
    LET req  == Request("get_task", credentials, cookies, user_id, task_id, NoBody)
        auth == get_current_user_id(credentials, cookies)
        task == session_get_task(task_id)
    IN  /\ resp = Idle
        /\ IF auth.status # HTTP_200_OK THEN Denied(req, auth)
           ELSE IF user_id # auth.user_id
                THEN Raise(req, auth, HTTP_403_FORBIDDEN, "Unauthorized access", TRUE)
           ELSE IF task = NoTask
                THEN Raise(req, auth, HTTP_404_NOT_FOUND, "Task not found", TRUE)
           ELSE IF task.user_id # user_id
                THEN Raise(req, auth, HTTP_403_FORBIDDEN, "Unauthorized access", TRUE)
           ELSE /\ resp' = Response(req, auth, HTTP_200_OK, "", TRUE,
                                    [kind |-> "task", task |-> task])
                /\ UNCHANGED <<sessions, users, tasks, next_id, now, issued, signed_out, last_toggle>>

\* get_task looking the task up before comparing the path user_id with the token's
get_task_existence_first(credentials, cookies, user_id, task_id) ==
    LET req  == Request("get_task", credentials, cookies, user_id, task_id, NoBody)
        auth == get_current_user_id(credentials, cookies)
        task == session_get_task(task_id)
    IN  /\ resp = Idle
        /\ IF auth.status # HTTP_200_OK THEN Denied(req, auth)
           ELSE IF task = NoTask \/ task.user_id # auth.user_id
                THEN Raise(req, auth, HTTP_404_NOT_FOUND, "Task not found", TRUE)
           ELSE IF user_id # auth.user_id
                THEN Raise(req, auth, HTTP_403_FORBIDDEN, "Unauthorized access", TRUE)
           ELSE /\ resp' = Response(req, auth, HTTP_200_OK, "", TRUE,
                                    [kind |-> "task", task |-> task])
                /\ UNCHANGED <<sessions, users, tasks, next_id, now, issued, signed_out, last_toggle>>

get_task(credentials, cookies, user_id, task_id) ==
    LET req  == Request("get_task", credentials, cookies, user_id, task_id, NoBody)
        auth == get_current_user_id(credentials, cookies)
        task == session_get_task(task_id)
    IN  /\ resp = Idle
        /\ IF auth.status # HTTP_200_OK THEN Denied(req, auth)
           ELSE IF user_id # auth.user_id
                THEN Raise(req, auth, HTTP_403_FORBIDDEN, "Unauthorized access", TRUE)
           ELSE IF task = NoTask \/ task.user_id # user_id
                THEN Raise(req, auth, HTTP_404_NOT_FOUND, "Task not found", TRUE)
           ELSE /\ resp' = Response(req, auth, HTTP_200_OK, "", TRUE,
                                    [kind |-> "task", task |-> task])
                /\ UNCHANGED <<sessions, users, tasks, next_id, now, issued, signed_out, last_toggle>>

\* apply_update leaving updated_at as it was
apply_update_keep_stamp(db_task, body) ==
    [f \in DOMAIN db_task |->
        IF f \in DOMAIN body.vals THEN body.vals[f]
        ELSE IF f \in body.nulls THEN None
        ELSE db_task[f]]

\* apply_update writing the default of description when the body leaves it out
apply_update_clears_description(db_task, body) ==
    [f \in DOMAIN db_task |->
        IF f = "updated_at" THEN now
        ELSE IF f \in DOMAIN body.vals THEN body.vals[f]
        ELSE IF f \in body.nulls \/ f = "description" THEN None
        ELSE db_task[f]]

\* task_update.model_dump(exclude_unset=True) applied with setattr: body.vals
\* holds the fields sent with a value, body.nulls the fields sent as null
apply_update(db_task, body) ==
    [f \in DOMAIN db_task |->
        IF f = "updated_at" THEN now
        ELSE IF f \in DOMAIN body.vals THEN body.vals[f]
        ELSE IF f \in body.nulls THEN None
        ELSE db_task[f]]

\* the tasks table declares title and completed NOT NULL: commit() raises
violates_not_null(body) == body.nulls \cap {"title", "completed"} # {}

\* update_task writing the new values to every task of the user
update_task_all_rows(credentials, cookies, user_id, task_id, task_update) ==
    LET req  == Request("update_task", credentials, cookies, user_id, task_id, task_update)
        auth == get_current_user_id(credentials, cookies)
        db_task == session_get_task(task_id)
    IN  /\ resp = Idle
        /\ IF auth.status # HTTP_200_OK THEN Denied(req, auth)
           ELSE IF user_id # auth.user_id
                THEN Raise(req, auth, HTTP_403_FORBIDDEN, "Unauthorized access", TRUE)
           ELSE IF db_task = NoTask \/ db_task.user_id # user_id
                THEN Raise(req, auth, HTTP_404_NOT_FOUND, "Task not found", TRUE)
           ELSE IF violates_not_null(task_update)
                THEN Raise(req, auth, HTTP_500_INTERNAL_SERVER_ERROR, "IntegrityError", TRUE)
           ELSE LET new == apply_update(db_task, task_update) IN
                /\ tasks' = {IF t.user_id = user_id THEN apply_update(t, task_update) ELSE t : t \in tasks}
                /\ last_toggle' = Remember(task_id, "update", db_task.completed)
                /\ resp' = Response(req, auth, HTTP_200_OK, "", TRUE,
                                    [kind |-> "task", task |-> new])
                /\ UNCHANGED <<sessions, users, next_id, now, issued, signed_out>>

\* update_task committing the new values before it checks the owner
update_task_write_first(credentials, cookies, user_id, task_id, task_update) ==
    LET req  == Request("update_task", credentials, cookies, user_id, task_id, task_update)
        auth == get_current_user_id(credentials, cookies)
        db_task == session_get_task(task_id)
    IN  /\ resp = Idle
        /\ IF auth.status # HTTP_200_OK THEN Denied(req, auth)
           ELSE IF user_id # auth.user_id
                THEN Raise(req, auth, HTTP_403_FORBIDDEN, "Unauthorized access", TRUE)
           ELSE IF db_task = NoTask
                THEN Raise(req, auth, HTTP_404_NOT_FOUND, "Task not found", TRUE)
           ELSE IF violates_not_null(task_update)
                THEN Raise(req, auth, HTTP_500_INTERNAL_SERVER_ERROR, "IntegrityError", TRUE)
           ELSE LET new == apply_update(db_task, task_update) IN
                /\ tasks' = (tasks \ {db_task}) \cup {new}
                /\ last_toggle' = Remember(task_id, "update", db_task.completed)
                /\ resp' = IF db_task.user_id # user_id
                               THEN Response(req, auth, HTTP_404_NOT_FOUND, "Task not found", TRUE, NoResult)
                               ELSE Response(req, auth, HTTP_200_OK, "", TRUE,
                                             [kind |-> "task", task |-> new])
                /\ UNCHANGED <<sessions, users, next_id, now, issued, signed_out>>

update_task(credentials, cookies, user_id, task_id, task_update) ==
    LET req  == Request("update_task", credentials, cookies, user_id, task_id, task_update)
        auth == get_current_user_id(credentials, cookies)
        db_task == session_get_task(task_id)
    IN  /\ resp = Idle
        /\ IF auth.status # HTTP_200_OK THEN Denied(req, auth)
           ELSE IF user_id # auth.user_id
                THEN Raise(req, auth, HTTP_403_FORBIDDEN, "Unauthorized access", TRUE)
           ELSE IF db_task = NoTask \/ db_task.user_id # user_id
                THEN Raise(req, auth, HTTP_404_NOT_FOUND, "Task not found", TRUE)
           ELSE IF violates_not_null(task_update)
                THEN Raise(req, auth, HTTP_500_INTERNAL_SERVER_ERROR, "IntegrityError", TRUE)
           ELSE LET new == apply_update(db_task, task_update) IN
                /\ tasks' = (tasks \ {db_task}) \cup {new}
                /\ last_toggle' = Remember(task_id, "update", db_task.completed)
                /\ resp' = Response(req, auth, HTTP_200_OK, "", TRUE,
                                    [kind |-> "task", task |-> new])
                /\ UNCHANGED <<sessions, users, next_id, now, issued, signed_out>>

\* delete_task checking only that the task exists
delete_task_any_owner(credentials, cookies, user_id, task_id) ==
    LET req  == Request("delete_task", credentials, cookies, user_id, task_id, NoBody)
        auth == get_current_user_id(credentials, cookies)
        task == session_get_task(task_id)
    IN  /\ resp = Idle
        /\ IF auth.status # HTTP_200_OK THEN Denied(req, auth)
           ELSE IF user_id # auth.user_id
                THEN Raise(req, auth, HTTP_403_FORBIDDEN, "Unauthorized access", TRUE)
           ELSE IF task = NoTask
                THEN Raise(req, auth, HTTP_404_NOT_FOUND, "Task not found", TRUE)
           ELSE /\ tasks' = tasks \ {task}
                /\ last_toggle' = Remember(task_id, "delete", task.completed)
                /\ resp' = Response(req, auth, HTTP_204_NO_CONTENT, "", TRUE, NoResult)
                /\ UNCHANGED <<sessions, users, next_id, now, issued, signed_out>>

\* delete_task answering 204 without removing the row
delete_task_soft(credentials, cookies, user_id, task_id) ==
    LET req  == Request("delete_task", credentials, cookies, user_id, task_id, NoBody)
        auth == get_current_user_id(credentials, cookies)
        task == session_get_task(task_id)
    IN  /\ resp = Idle
        /\ IF auth.status # HTTP_200_OK THEN Denied(req, auth)
           ELSE IF user_id # auth.user_id
                THEN Raise(req, auth, HTTP_403_FORBIDDEN, "Unauthorized access", TRUE)
           ELSE IF task = NoTask \/ task.user_id # user_id
                THEN Raise(req, auth, HTTP_404_NOT_FOUND, "Task not found", TRUE)
           ELSE /\ last_toggle' = Remember(task_id, "delete", task.completed)
                /\ resp' = Response(req, auth, HTTP_204_NO_CONTENT, "", TRUE, NoResult)
                /\ UNCHANGED <<sessions, users, tasks, next_id, now, issued, signed_out>>

delete_task(credentials, cookies, user_id, task_id) ==
    LET req  == Request("delete_task", credentials, cookies, user_id, task_id, NoBody)
        auth == get_current_user_id(credentials, cookies)
        task == session_get_task(task_id)
    IN  /\ resp = Idle
        /\ IF auth.status # HTTP_200_OK THEN Denied(req, auth)
           ELSE IF user_id # auth.user_id
                THEN Raise(req, auth, HTTP_403_FORBIDDEN, "Unauthorized access", TRUE)
           ELSE IF task = NoTask \/ task.user_id # user_id
                THEN Raise(req, auth, HTTP_404_NOT_FOUND, "Task not found", TRUE)
           ELSE /\ tasks' = tasks \ {task}
                /\ last_toggle' = Remember(task_id, "delete", task.completed)
                /\ resp' = Response(req, auth, HTTP_204_NO_CONTENT, "", TRUE, NoResult)
                /\ UNCHANGED <<sessions, users, next_id, now, issued, signed_out>>

\* toggle_complete marking the task completed instead of flipping the flag
toggle_complete_mark_done(credentials, cookies, user_id, task_id) ==
    LET req  == Request("toggle_complete", credentials, cookies, user_id, task_id, NoBody)
        auth == get_current_user_id(credentials, cookies)
        db_task == session_get_task(task_id)
    IN  /\ resp = Idle
        /\ IF auth.status # HTTP_200_OK THEN Denied(req, auth)
           ELSE IF user_id # auth.user_id
                THEN Raise(req, auth, HTTP_403_FORBIDDEN, "Unauthorized access", TRUE)
           ELSE IF db_task = NoTask \/ db_task.user_id # user_id
                THEN Raise(req, auth, HTTP_404_NOT_FOUND, "Task not found", TRUE)
           ELSE LET new == [db_task EXCEPT !.completed = TRUE, !.updated_at = now] IN
                /\ tasks' = (tasks \ {db_task}) \cup {new}
                /\ last_toggle' = Remember(task_id, "toggle", db_task.completed)
                /\ resp' = Response(req, auth, HTTP_200_OK, "", TRUE,
                                    [kind |-> "task", task |-> new])
                /\ UNCHANGED <<sessions, users, next_id, now, issued, signed_out>>

\* toggle_complete wording the answer for a task of another user differently
toggle_complete_leaky(credentials, cookies, user_id, task_id) ==
    LET req  == Request("toggle_complete", credentials, cookies, user_id, task_id, NoBody)
        auth == get_current_user_id(credentials, cookies)
        db_task == session_get_task(task_id)
    IN  /\ resp = Idle
        /\ IF auth.status # HTTP_200_OK THEN Denied(req, auth)
           ELSE IF user_id # auth.user_id
                THEN Raise(req, auth, HTTP_403_FORBIDDEN, "Unauthorized access", TRUE)
           ELSE IF db_task = NoTask
                THEN Raise(req, auth, HTTP_404_NOT_FOUND, "Task not found", TRUE)
           ELSE IF db_task.user_id # user_id
                THEN Raise(req, auth, HTTP_404_NOT_FOUND, "Task belongs to another user", TRUE)
           ELSE LET new == [db_task EXCEPT !.completed = ~db_task.completed,
                                           !.updated_at = now] IN
                /\ tasks' = (tasks \ {db_task}) \cup {new}
                /\ last_toggle' = Remember(task_id, "toggle", db_task.completed)
                /\ resp' = Response(req, auth, HTTP_200_OK, "", TRUE,
                                    [kind |-> "task", task |-> new])
                /\ UNCHANGED <<sessions, users, next_id, now, issued, signed_out>>

toggle_complete(credentials, cookies, user_id, task_id) ==
    LET req  == Request("toggle_complete", credentials, cookies, user_id, task_id, NoBody)
        auth == get_current_user_id(credentials, cookies)
        db_task == session_get_task(task_id)
    IN  /\ resp = Idle
        /\ IF auth.status # HTTP_200_OK THEN Denied(req, auth)
           ELSE IF user_id # auth.user_id
                THEN Raise(req, auth, HTTP_403_FORBIDDEN, "Unauthorized access", TRUE)
           ELSE IF db_task = NoTask \/ db_task.user_id # user_id
                THEN Raise(req, auth, HTTP_404_NOT_FOUND, "Task not found", TRUE)
           ELSE LET new == [db_task EXCEPT !.completed = ~db_task.completed,
                                           !.updated_at = now] IN
                /\ tasks' = (tasks \ {db_task}) \cup {new}
                /\ last_toggle' = Remember(task_id, "toggle", db_task.completed)
                /\ resp' = Response(req, auth, HTTP_200_OK, "", TRUE,
                                    [kind |-> "task", task |-> new])
                /\ UNCHANGED <<sessions, users, next_id, now, issued, signed_out>>

(* ------------- routes/tasks.py, served by several workers -------------- *)
\* Each worker process serves one request at a time with a database session
\* of its own.  A handler that reads a row and writes it back takes two
\* steps: the load (the checks and session.get) and the commit (the UPDATE or
\* DELETE that session.commit() flushes, and session.refresh).
Workers == 1 .. MaxWorkers
NoSession == [pc |-> "idle", op |-> "none", task_id |-> 0, body |-> NoBody,
              row |-> NoTask, status |-> 0, result |-> NoResult]
Loaded(op, task_id, body, row) ==
    [pc |-> "loaded", op |-> op, task_id |-> task_id, body |-> body,
     row |-> row, status |-> 0, result |-> NoResult]
Done(op, task_id, body, row, status, result) ==
    [pc |-> "done", op |-> op, task_id |-> task_id, body |-> body,
     row |-> row, status |-> status, result |-> result]

\* the part of update_task, delete_task and toggle_complete up to the first
\* write: the dependency, the path check, session.get and the ownership check
load_task(w, op, credentials, cookies, user_id, task_id, body) ==
    LET auth == get_current_user_id(credentials, cookies)
        db_task == session_get_task(task_id)
        Fail(status) == Done(op, task_id, body, NoTask, status, NoResult)
    IN  /\ w \in DOMAIN sessions
        /\ sessions[w].pc = "idle"
        /\ sessions' = [sessions EXCEPT ![w] =
              IF auth.status # HTTP_200_OK THEN Fail(auth.status)
              ELSE IF user_id # auth.user_id THEN Fail(HTTP_403_FORBIDDEN)
              ELSE IF db_task = NoTask \/ db_task.user_id # user_id THEN Fail(HTTP_404_NOT_FOUND)
              ELSE Loaded(op, task_id, body, db_task)]
        /\ UNCHANGED <<users, tasks, next_id, now, issued, signed_out, last_toggle, resp>>

\* commit_update writing the loaded object back as a new row when its row is
\* gone (the way session.merge would)
commit_update_upsert(w, new) ==
    LET s == sessions[w]
        row == s.row
        current == session_get_task(row.id)
        written == [f \in DOMAIN row |->
                       IF new[f] # row[f] \/ current = NoTask THEN new[f] ELSE current[f]]
    IN  /\ tasks' = (tasks \ {current}) \cup {written}
        /\ last_toggle' = last_toggle
        /\ sessions' = [sessions EXCEPT ![w] =
              Done(s.op, s.task_id, s.body, row, HTTP_200_OK, [kind |-> "task", task |-> written])]
        /\ UNCHANGED <<users, next_id, now, issued, signed_out, resp>>

\* session.commit() and session.refresh(db_task) after the attributes of the
\* loaded object `row` were set to those of `new`: the UPDATE names the row
\* by its primary key and sets the columns whose value has changed; it fails
\* (StaleDataError) when it matches no row, and so does the refresh
\* (InvalidRequestError) when nothing was to be updated and the row is gone
commit_update(w, new) ==
    LET s == sessions[w]
        row == s.row
        current == session_get_task(row.id)
        written == [f \in DOMAIN row |-> IF new[f] # row[f] THEN new[f] ELSE current[f]]
        Answer(status, result) == Done(s.op, s.task_id, s.body, row, status, result)
    IN  IF current = NoTask
            THEN /\ sessions' = [sessions EXCEPT ![w] =
                                    Answer(HTTP_500_INTERNAL_SERVER_ERROR, NoResult)]
                 /\ UNCHANGED <<users, tasks, next_id, now, issued, signed_out, last_toggle, resp>>
            ELSE /\ tasks' = (tasks \ {current}) \cup {written}
                 /\ last_toggle' = Remember(row.id, IF s.op = "toggle_complete" THEN "toggle" ELSE "update",
                                             current.completed)
                 /\ sessions' = [sessions EXCEPT ![w] =
                                    Answer(HTTP_200_OK, [kind |-> "task", task |-> written])]
                 /\ UNCHANGED <<users, next_id, now, issued, signed_out, resp>>

update_task_load(w, credentials, cookies, user_id, task_id, task_update) ==
    load_task(w, "update_task", credentials, cookies, user_id, task_id, task_update)

update_task_commit(w) ==
    /\ w \in DOMAIN sessions
    /\ sessions[w].pc = "loaded"
    /\ sessions[w].op = "update_task"
    /\ IF violates_not_null(sessions[w].body)
          THEN /\ sessions' = [sessions EXCEPT ![w] =
                      Done(@.op, @.task_id, @.body, @.row, HTTP_500_INTERNAL_SERVER_ERROR, NoResult)]
               /\ UNCHANGED <<users, tasks, next_id, now, issued, signed_out, last_toggle, resp>>
          ELSE commit_update(w, apply_update(sessions[w].row, sessions[w].body))

toggle_complete_load(w, credentials, cookies, user_id, task_id) ==
    load_task(w, "toggle_complete", credentials, cookies, user_id, task_id, NoBody)

\* toggle_complete flipping the flag in the database (UPDATE tasks SET
\* completed = NOT completed) instead of writing the value it computed
toggle_complete_commit_relative(w) ==
    LET s == sessions[w]
        current == session_get_task(s.row.id)
        written == [current EXCEPT !.completed = ~current.completed, !.updated_at = now]
    IN  /\ w \in DOMAIN sessions
        /\ s.pc = "loaded"
        /\ s.op = "toggle_complete"
        /\ current # NoTask
        /\ tasks' = (tasks \ {current}) \cup {written}
        /\ last_toggle' = Remember(s.row.id, "toggle", current.completed)
        /\ sessions' = [sessions EXCEPT ![w] =
              Done(s.op, s.task_id, s.body, s.row, HTTP_200_OK, [kind |-> "task", task |-> written])]
        /\ UNCHANGED <<users, next_id, now, issued, signed_out, resp>>

toggle_complete_commit(w) ==
    /\ w \in DOMAIN sessions
    /\ sessions[w].pc = "loaded"
    /\ sessions[w].op = "toggle_complete"
    /\ commit_update(w, [sessions[w].row EXCEPT !.completed = ~sessions[w].row.completed,
                                                !.updated_at = now])

delete_task_load(w, credentials, cookies, user_id, task_id) ==
    load_task(w, "delete_task", credentials, cookies, user_id, task_id, NoBody)

\* session.delete(task); session.commit(): a DELETE that matches no row any
\* more is only warned about
delete_task_commit(w) ==
    /\ w \in DOMAIN sessions
    /\ sessions[w].pc = "loaded"
    /\ sessions[w].op = "delete_task"
    /\ tasks' = {t \in tasks : t.id # sessions[w].row.id}
    /\ last_toggle' = Remember(sessions[w].row.id, "delete", sessions[w].row.completed)
    /\ sessions' = [sessions EXCEPT ![w] =
            Done(@.op, @.task_id, @.body, @.row, HTTP_204_NO_CONTENT, NoResult)]
    /\ UNCHANGED <<users, next_id, now, issued, signed_out, resp>>

\* the response has been sent: the worker takes the next request
Close(w) ==
    /\ w \in DOMAIN sessions
    /\ sessions[w].pc = "done"
    /\ sessions' = [sessions EXCEPT ![w] = NoSession]
    /\ UNCHANGED <<users, tasks, next_id, now, issued, signed_out, last_toggle, resp>>

(* --------------------------- routes/auth.py ---------------------------- *)
\* the body of a signup / signin response: the token (also sent as the
\* better-auth.session_token cookie) and the user's id
TokenResult(token, user) == [kind |-> "token", token |-> token, user_id |-> user.id]

\* the history record of the call create_jwt_token(user_id) that returned token
Issue(user_id, token) == [subject |-> user_id, at |-> now, token |-> token]
IssuedTokens == {i.token : i \in issued}

\* signup refusing also a password of exactly the minimum length
signup_min_exclusive(user_data, id, salt) ==
    LET req == Request("signup", NoCred, NoCred, None, 0, user_data)
        db_user == [id |-> id, email |-> user_data.email,
                    hashed_password |-> hash_password(user_data.password, salt)]
        token == create_jwt_token(db_user.id)
    IN  /\ resp = Idle
        /\ IF \E u \in users : u.email = user_data.email
                THEN Raise(req, NoAuth, HTTP_400_BAD_REQUEST, "Email already registered", TRUE)
           ELSE IF Len(user_data.password) <= MIN_PASSWORD_LENGTH
                THEN Raise(req, NoAuth, HTTP_400_BAD_REQUEST,
                           "Password must be at least 6 characters long", TRUE)
           ELSE /\ id \notin {u.id : u \in users}
                /\ Cardinality(issued \cup {Issue(db_user.id, token)}) <= MaxIssued
                /\ users' = users \cup {db_user}
                /\ issued' = issued \cup {Issue(db_user.id, token)}
                /\ resp' = Response(req, NoAuth, HTTP_201_CREATED, "", TRUE,
                                    TokenResult(token, db_user))
                /\ UNCHANGED <<sessions, tasks, next_id, now, signed_out, last_toggle>>

\* POST /api/auth/signup; `id` is the value of uuid.uuid4() and `salt` the
\* value of os.urandom(32)
signup(user_data, id, salt) ==
    LET req == Request("signup", NoCred, NoCred, None, 0, user_data)
        db_user == [id |-> id, email |-> user_data.email,
                    hashed_password |-> hash_password(user_data.password, salt)]
        token == create_jwt_token(db_user.id)
    IN  /\ resp = Idle
        /\ IF \E u \in users : u.email = user_data.email
                THEN Raise(req, NoAuth, HTTP_400_BAD_REQUEST, "Email already registered", TRUE)
           ELSE IF Len(user_data.password) < MIN_PASSWORD_LENGTH
                THEN Raise(req, NoAuth, HTTP_400_BAD_REQUEST,
                           "Password must be at least 6 characters long", TRUE)
           ELSE /\ id \notin {u.id : u \in users}
                /\ Cardinality(issued \cup {Issue(db_user.id, token)}) <= MaxIssued
                /\ users' = users \cup {db_user}
                /\ issued' = issued \cup {Issue(db_user.id, token)}
                /\ resp' = Response(req, NoAuth, HTTP_201_CREATED, "", TRUE,
                                    TokenResult(token, db_user))
                /\ UNCHANGED <<sessions, tasks, next_id, now, signed_out, last_toggle>>

\* signin looking the user up without verifying the password
signin_skip_verify(credentials) ==
    LET req == Request("signin", NoCred, NoCred, None, 0, credentials)
        found == {u \in users : u.email = credentials.email}
    IN  /\ resp = Idle
        /\ IF found = {} THEN Raise(req, NoAuth, HTTP_401_UNAUTHORIZED, "Invalid email or password", TRUE)
           ELSE LET user == CHOOSE u \in found : TRUE
                    token == create_jwt_token(user.id) IN
                /\ Cardinality(issued \cup {Issue(user.id, token)}) <= MaxIssued
                /\ issued' = issued \cup {Issue(user.id, token)}
                /\ resp' = Response(req, NoAuth, HTTP_200_OK, "", TRUE,
                                    TokenResult(token, user))
                /\ UNCHANGED <<sessions, users, tasks, next_id, now, signed_out, last_toggle>>

\* POST /api/auth/signin
signin(credentials) ==
    LET req == Request("signin", NoCred, NoCred, None, 0, credentials)
        found == {u \in users : u.email = credentials.email}
    IN  /\ resp = Idle
        /\ IF found = {} THEN Raise(req, NoAuth, HTTP_401_UNAUTHORIZED, "Invalid email or password", TRUE)
           ELSE LET user == CHOOSE u \in found : TRUE
                    token == create_jwt_token(user.id)
                    verified == verify_password(credentials.password, user.hashed_password) IN
                IF verified.exc # "none"
                    THEN Raise(req, NoAuth, HTTP_500_INTERNAL_SERVER_ERROR, verified.exc, TRUE)
                ELSE IF ~verified.value
                    THEN Raise(req, NoAuth, HTTP_401_UNAUTHORIZED, "Invalid email or password", TRUE)
                ELSE /\ Cardinality(issued \cup {Issue(user.id, token)}) <= MaxIssued
                     /\ issued' = issued \cup {Issue(user.id, token)}
                     /\ resp' = Response(req, NoAuth, HTTP_200_OK, "", TRUE,
                                         TokenResult(token, user))
                     /\ UNCHANGED <<sessions, users, tasks, next_id, now, signed_out, last_toggle>>

\* POST /api/auth/signout: only tells the client to drop its cookie
signout(credentials, cookies) ==
    LET req == Request("signout", credentials, cookies, None, 0, NoBody) IN
    /\ resp = Idle
    /\ resp' = Response(req, NoAuth, HTTP_200_OK, "Successfully signed out", TRUE, NoResult)
    /\ signed_out' = signed_out \cup {t.sub : t \in {credentials, cookies} \cap IssuedTokens}
    /\ UNCHANGED <<sessions, users, tasks, next_id, now, issued, last_toggle>>

\* GET /api/auth/me
get_current_user(credentials, cookies) ==
    LET req  == Request("get_current_user", credentials, cookies, None, 0, NoBody)
        auth == get_current_user_id(credentials, cookies)
        user == session_get_user(auth.user_id)
    IN  /\ resp = Idle
        /\ IF auth.status # HTTP_200_OK THEN Denied(req, auth)
           ELSE IF user.id = None
                THEN Raise(req, auth, HTTP_404_NOT_FOUND, "User not found", TRUE)
           ELSE /\ resp' = Response(req, auth, HTTP_200_OK, "", TRUE,
                                    [kind |-> "user", user_id |-> user.id, email |-> user.email])
                /\ UNCHANGED <<sessions, users, tasks, next_id, now, issued, signed_out, last_toggle>>

(* -------------- routes/auth.py, served by several workers -------------- *)
\* signup up to its first write: the SELECT by email and the two checks
signup_load(w, user_data) ==
    /\ w \in DOMAIN sessions
    /\ sessions[w].pc = "idle"
    /\ sessions' = [sessions EXCEPT ![w] =
          IF \E u \in users : u.email = user_data.email
              THEN Done("signup", 0, user_data, NoTask, HTTP_400_BAD_REQUEST, NoResult)
          ELSE IF Len(user_data.password) < MIN_PASSWORD_LENGTH
              THEN Done("signup", 0, user_data, NoTask, HTTP_400_BAD_REQUEST, NoResult)
          ELSE Loaded("signup", 0, user_data, NoTask)]
    /\ UNCHANGED <<users, tasks, next_id, now, issued, signed_out, last_toggle, resp>>

\* signup_commit on a users table that has no unique index on email
signup_commit_no_unique_index(w, id, salt) ==
    LET user_data == sessions[w].body
        db_user == [id |-> id, email |-> user_data.email,
                    hashed_password |-> hash_password(user_data.password, salt)]
        token == create_jwt_token(db_user.id)
    IN  /\ w \in DOMAIN sessions
        /\ sessions[w].pc = "loaded"
        /\ sessions[w].op = "signup"
        /\ id \notin {u.id : u \in users}
        /\ Cardinality(issued \cup {Issue(db_user.id, token)}) <= MaxIssued
        /\ users' = users \cup {db_user}
        /\ issued' = issued \cup {Issue(db_user.id, token)}
        /\ sessions' = [sessions EXCEPT ![w] =
              Done("signup", 0, user_data, NoTask, HTTP_201_CREATED, TokenResult(token, db_user))]
        /\ UNCHANGED <<tasks, next_id, now, signed_out, last_toggle, resp>>

\* session.add(db_user); session.commit(): the INSERT fails (IntegrityError)
\* on the unique index of users.email when a row of that email has been
\* committed since the SELECT
signup_commit(w, id, salt) ==
    LET user_data == sessions[w].body
        db_user == [id |-> id, email |-> user_data.email,
                    hashed_password |-> hash_password(user_data.password, salt)]
        token == create_jwt_token(db_user.id)
    IN  /\ w \in DOMAIN sessions
        /\ sessions[w].pc = "loaded"
        /\ sessions[w].op = "signup"
        /\ IF \E u \in users : u.email = user_data.email
              THEN /\ sessions' = [sessions EXCEPT ![w] =
                          Done("signup", 0, user_data, NoTask, HTTP_500_INTERNAL_SERVER_ERROR, NoResult)]
                   /\ UNCHANGED <<users, tasks, next_id, now, issued, signed_out, last_toggle, resp>>
              ELSE /\ id \notin {u.id : u \in users}
                   /\ Cardinality(issued \cup {Issue(db_user.id, token)}) <= MaxIssued
                   /\ users' = users \cup {db_user}
                   /\ issued' = issued \cup {Issue(db_user.id, token)}
                   /\ sessions' = [sessions EXCEPT ![w] =
                          Done("signup", 0, user_data, NoTask, HTTP_201_CREATED,
                               TokenResult(token, db_user))]
                   /\ UNCHANGED <<tasks, next_id, now, signed_out, last_toggle, resp>>

(* ----------------------------- environment ----------------------------- *)
\* a day passes between two requests
Tick(limit) ==
    /\ resp = Idle
    /\ now < limit
    /\ now' = now + 1
    /\ UNCHANGED <<sessions, users, tasks, next_id, issued, signed_out, last_toggle, resp>>

\* the client has received the response; the next request can be served
Deliver ==
    /\ resp # Idle
    /\ resp' = Idle
    /\ UNCHANGED <<sessions, users, tasks, next_id, now, issued, signed_out, last_toggle>>

Init ==
    /\ users = {}
    /\ tasks = {}
    /\ next_id = 1
    /\ now = 0
    /\ issued = {}
    /\ signed_out = {}
    /\ last_toggle = <<>>
    /\ resp = Idle
    /\ sessions = <<>>

(* --------------------------- request inputs ---------------------------- *)
Salts == {<<[urandom |-> "salt1"]>>}
TaskIds == 1 .. (MaxTasks + 1)

\* uuid.uuid4() returns a value no row has yet (the ids are opaque: the
\* first unused one stands for any fresh value)
FreshIds ==
    LET free == {i \in 1 .. Len(UserIdOrder) : UserIdOrder[i] \notin {u.id : u \in users}} IN
    IF free = {} THEN {}
    ELSE {UserIdOrder[CHOOSE i \in free : \A j \in free : i <= j]}

Fields(vals, nulls) == [vals |-> vals, nulls |-> nulls]

\* tokens a client can make up without the server: signed with the shared
\* secret by another holder of it, or forged
SharedSecretTokens ==
    {Jwt("HS256", BETTER_AUTH_SECRET, s, NoClaim, e) : s \in UserIds, e \in {NoClaim, 1}}
ForgedTokens ==
    { Garbage,
      Jwt("none", "", "u1", NoClaim, NoClaim),
      Jwt("HS512", BETTER_AUTH_SECRET, "u1", NoClaim, NoClaim),
      Jwt("HS256", "guess", "u1", NoClaim, NoClaim),
      Jwt("HS256", BETTER_AUTH_SECRET, None, NoClaim, NoClaim) }

\* one credential per request, in the header or in the cookie
OneChannel(tokens) ==
    {<<NoCred, NoCred>>} \cup {<<t, NoCred>> : t \in tokens} \cup {<<NoCred, t>> : t \in tokens}
\* a header, a cookie, or a header together with one of the cookies `with`
BothChannels(tokens, with) ==
    OneChannel(tokens) \cup {<<NoCred, EmptyStr>>} \cup (tokens \X with)

(* ------------------- the task-centred specification -------------------- *)
\* Two tenants work on the tasks table.  Clients hold the tokens the server
\* issued and tokens signed with the shared secret for either tenant.
TaskEmails == {"a@x.com"}
TaskCreds == OneChannel(IssuedTokens \cup {t \in SharedSecretTokens : t.exp = NoClaim} \cup {Garbage})
CreateBodies == {Fields([title |-> "t1"], {}), Fields([title |-> "t1", completed |-> TRUE], {})}
UpdateBodies == {Fields([completed |-> TRUE], {})}

SignupReq == \E e \in TaskEmails, p \in Passwords, id \in FreshIds, salt \in Salts :
                signup([email |-> e, password |-> p], id, salt)
SigninReq == \E e \in TaskEmails, p \in Passwords : signin([email |-> e, password |-> p])
SignoutReq == \E c \in TaskCreds : signout(c[1], c[2])
MeReq == \E c \in TaskCreds : get_current_user(c[1], c[2])
ListReq == \E c \in TaskCreds, u \in PathUsers : list_tasks(c[1], c[2], u)
CreateReq == \E c \in TaskCreds, u \in PathUsers, b \in CreateBodies :
                create_task(c[1], c[2], u, b, MaxTasks)
GetReq == \E c \in TaskCreds, u \in PathUsers, i \in TaskIds : get_task(c[1], c[2], u, i)
UpdateReq == \E c \in TaskCreds, u \in PathUsers, i \in TaskIds, b \in UpdateBodies :
                update_task(c[1], c[2], u, i, b)
DeleteReq == \E c \in TaskCreds, u \in PathUsers, i \in TaskIds : delete_task(c[1], c[2], u, i)
ToggleReq == \E c \in TaskCreds, u \in PathUsers, i \in TaskIds : toggle_complete(c[1], c[2], u, i)
ClockTick == Tick(MaxClock)

Next ==
    \/ SignupReq \/ SigninReq \/ SignoutReq \/ MeReq
    \/ ListReq \/ CreateReq \/ GetReq \/ UpdateReq \/ DeleteReq \/ ToggleReq
    \/ ClockTick \/ Deliver

Spec == Init /\ [][Next]_vars

(* ---------------- the authentication-centred specification ------------- *)
\* One account signs up and signs in over MaxTime days; every protected
\* endpoint is called with issued, shared-secret and forged tokens in the
\* header, in the cookie, or in both.  The tasks table starts empty
\* with its id sequence used up, so that only the clock, the users table and
\* the issued tokens vary.
AuthEmails == {"a@x.com"}
AuthPaths == {"u1"}
AuthTaskIds == {1}
AuthCreds == BothChannels(IssuedTokens \cup SharedSecretTokens \cup ForgedTokens,
                          IssuedTokens \cup {Garbage})
AuthUpdateBodies == {Fields([completed |-> TRUE], {})}

InitAuth ==
    /\ users = {}
    /\ tasks = {}
    /\ next_id = MaxTasks + 1
    /\ now = 0
    /\ issued = {}
    /\ signed_out = {}
    /\ last_toggle = <<>>
    /\ resp = Idle
    /\ sessions = <<>>

AuthSignup == \E e \in AuthEmails, p \in Passwords, id \in FreshIds, salt \in Salts :
                signup([email |-> e, password |-> p], id, salt)
AuthSignin == \E e \in AuthEmails, p \in Passwords : signin([email |-> e, password |-> p])
AuthSignout == \E c \in OneChannel(IssuedTokens) : signout(c[1], c[2])
AuthMe == \E c \in AuthCreds : get_current_user(c[1], c[2])
AuthList == \E c \in AuthCreds, u \in AuthPaths : list_tasks(c[1], c[2], u)
AuthCreate == \E c \in AuthCreds, u \in AuthPaths, b \in CreateBodies :
                create_task(c[1], c[2], u, b, MaxTasks)
AuthGet == \E c \in AuthCreds, u \in AuthPaths, i \in AuthTaskIds : get_task(c[1], c[2], u, i)
AuthUpdate == \E c \in AuthCreds, u \in AuthPaths, i \in AuthTaskIds, b \in AuthUpdateBodies :
                update_task(c[1], c[2], u, i, b)
AuthDelete == \E c \in AuthCreds, u \in AuthPaths, i \in AuthTaskIds : delete_task(c[1], c[2], u, i)
AuthToggle == \E c \in AuthCreds, u \in AuthPaths, i \in AuthTaskIds : toggle_complete(c[1], c[2], u, i)
AuthTick == Tick(MaxTime)

NextAuth ==
    \/ AuthSignup \/ AuthSignin \/ AuthSignout \/ AuthMe
    \/ AuthList \/ AuthCreate \/ AuthGet \/ AuthUpdate \/ AuthDelete \/ AuthToggle
    \/ AuthTick \/ Deliver

SpecAuth == InitAuth /\ [][NextAuth]_vars

(* ------------------- the content-centred specification ----------------- *)
\* One tenant, holding a token signed with the shared secret, creates, edits,
\* toggles and deletes tasks with every shape of request body; the history of
\* each task id is kept.
StoreCreds == {<<Jwt("HS256", BETTER_AUTH_SECRET, "u1", NoClaim, NoClaim), NoCred>>}
StorePaths == {"u1"}
StoreCreateBodies ==
    { Fields([title |-> "t1"], {}),
      Fields([title |-> ""], {}),
      Fields([title |-> "t1", description |-> "d", completed |-> TRUE], {}),
      Fields([description |-> "d"], {}),
      Fields([completed |-> FALSE], {"title"}) }
StoreUpdateBodies ==
    { Fields(<<>>, {}),
      Fields([title |-> "t2"], {}),
      Fields([title |-> ""], {}),
      Fields([description |-> "d"], {}),
      Fields([completed |-> TRUE], {}),
      Fields([title |-> "t1", completed |-> FALSE], {"description"}),
      Fields(<<>>, {"title"}) }

InitStore ==
    /\ users = {}
    /\ tasks = {}
    /\ next_id = 1
    /\ now = 0
    /\ issued = {}
    /\ signed_out = {}
    /\ last_toggle = [i \in TaskIds |-> NoRun]
    /\ resp = Idle
    /\ sessions = <<>>

StoreList == \E c \in StoreCreds, u \in StorePaths : list_tasks(c[1], c[2], u)
StoreCreate == \E c \in StoreCreds, u \in StorePaths, b \in StoreCreateBodies :
                create_task(c[1], c[2], u, b, MaxTasks)
StoreGet == \E c \in StoreCreds, u \in StorePaths, i \in TaskIds : get_task(c[1], c[2], u, i)
StoreUpdate == \E c \in StoreCreds, u \in StorePaths, i \in TaskIds, b \in StoreUpdateBodies :
                update_task(c[1], c[2], u, i, b)
StoreDelete == \E c \in StoreCreds, u \in StorePaths, i \in TaskIds : delete_task(c[1], c[2], u, i)
StoreToggle == \E c \in StoreCreds, u \in StorePaths, i \in TaskIds : toggle_complete(c[1], c[2], u, i)
StoreTick == Tick(MaxClock)

NextStore ==
    \/ StoreList \/ StoreCreate \/ StoreGet \/ StoreUpdate \/ StoreDelete \/ StoreToggle
    \/ StoreTick \/ Deliver

SpecStore == InitStore /\ [][NextStore]_vars

(* -------------------- the several-rows specification ------------------- *)
\* One tenant keeps up to MaxTasks + 1 tasks at a time and writes them one
\* after the other, so that every write of a task has other tasks beside it.
FrameCreateBodies == {Fields([title |-> "t1"], {})}
FrameUpdateBodies == {Fields([title |-> "t2", completed |-> TRUE], {})}

FrameCreate == \E c \in StoreCreds, u \in StorePaths, b \in FrameCreateBodies :
                create_task(c[1], c[2], u, b, MaxTasks + 1)
FrameUpdate == \E c \in StoreCreds, u \in StorePaths, i \in TaskIds, b \in FrameUpdateBodies :
                update_task(c[1], c[2], u, i, b)
FrameDelete == \E c \in StoreCreds, u \in StorePaths, i \in TaskIds : delete_task(c[1], c[2], u, i)
FrameToggle == \E c \in StoreCreds, u \in StorePaths, i \in TaskIds : toggle_complete(c[1], c[2], u, i)
FrameTick == Tick(MaxClock)

NextFrame ==
    \/ FrameCreate \/ FrameUpdate \/ FrameDelete \/ FrameToggle
    \/ FrameTick \/ Deliver

SpecFrame == Init /\ [][NextFrame]_vars

(* ------------------ the stored-password specification ----------------- *)
\* The users table holds one row whose hashed_password was written by
\* hash_password or is one of the malformed values a row written by other
\* hands can carry; clients sign up and sign in against it.
WellFormed == {hash_password(p, salt) : p \in Passwords, salt \in Salts}
MalformedValues ==
    LET h == hash_password("123456", CHOOSE salt \in Salts : TRUE)
        parts == split(h, Dollar)
    IN  { <<>>,
          parts[1] \o parts[2],
          h \o <<Dollar>> \o parts[2],
          <<Dollar, Dollar>>,
          <<LoneB64>> \o h,
          h \o <<LoneB64>>,
          <<LoneB64>> }
\* values that are not what hash_password writes, and yet decode
OddValues ==
    LET h == hash_password("123456", CHOOSE salt \in Salts : TRUE)
        parts == split(h, Dollar)
    IN  { <<Junk>> \o h, <<Dollar>>, parts[2] \o <<Dollar>> \o parts[1] }
StoredValues == WellFormed \cup MalformedValues \cup OddValues
HashEmails == {"a@x.com", "b@x.com"}

InitHash ==
    /\ users \in {{[id |-> "u1", email |-> "a@x.com", hashed_password |-> h]} : h \in StoredValues}
    /\ tasks = {}
    /\ next_id = 1
    /\ now = 0
    /\ issued = {}
    /\ signed_out = {}
    /\ last_toggle = <<>>
    /\ resp = Idle
    /\ sessions = <<>>

HashSignup == \E e \in HashEmails, p \in Passwords, id \in FreshIds, salt \in Salts :
                signup([email |-> e, password |-> p], id, salt)
HashSignin == \E e \in HashEmails, p \in Passwords : signin([email |-> e, password |-> p])
HashTick == Tick(MaxClock)

NextHash == HashSignup \/ HashSignin \/ HashTick \/ Deliver

SpecHash == InitHash /\ [][NextHash]_vars

(* -------------------- the concurrent specification --------------------- *)
\* One tenant's requests are served by MaxWorkers worker processes at once:
\* updates, toggles and deletes of the same task interleave between their
\* load and their commit.
ConcCreateBodies == {Fields([title |-> "t1"], {})}
ConcUpdateBodies == {Fields([title |-> "t2"], {})}

InitConc ==
    /\ users = {}
    /\ tasks = {}
    /\ next_id = 1
    /\ now = 0
    /\ issued = {}
    /\ signed_out = {}
    /\ last_toggle = [i \in TaskIds |-> NoRun]
    /\ resp = Idle
    /\ sessions = [w \in Workers |-> NoSession]

ConcCreate == \E c \in StoreCreds, u \in StorePaths, b \in ConcCreateBodies :
                create_task(c[1], c[2], u, b, MaxTasks)
ConcUpdateLoad == \E w \in Workers, c \in StoreCreds, u \in StorePaths, i \in TaskIds,
                     b \in ConcUpdateBodies : update_task_load(w, c[1], c[2], u, i, b)
ConcUpdateCommit == \E w \in Workers : update_task_commit(w)
ConcToggleLoad == \E w \in Workers, c \in StoreCreds, u \in StorePaths, i \in TaskIds :
                     toggle_complete_load(w, c[1], c[2], u, i)
ConcToggleCommit == \E w \in Workers : toggle_complete_commit(w)
ConcDeleteLoad == \E w \in Workers, c \in StoreCreds, u \in StorePaths, i \in TaskIds :
                     delete_task_load(w, c[1], c[2], u, i)
ConcDeleteCommit == \E w \in Workers : delete_task_commit(w)
ConcClose == \E w \in Workers : Close(w)

NextConc ==
    \/ ConcCreate \/ Deliver
    \/ ConcUpdateLoad \/ ConcUpdateCommit
    \/ ConcToggleLoad \/ ConcToggleCommit
    \/ ConcDeleteLoad \/ ConcDeleteCommit
    \/ ConcClose

SpecConc == InitConc /\ [][NextConc]_vars

(* ------------------- the signup-race specification --------------------- *)
\* MaxWorkers worker processes serve signups for the same emails at once,
\* and signins beside them.
InitRace ==
    /\ users = {}
    /\ tasks = {}
    /\ next_id = 1
    /\ now = 0
    /\ issued = {}
    /\ signed_out = {}
    /\ last_toggle = <<>>
    /\ resp = Idle
    /\ sessions = [w \in Workers |-> NoSession]

RaceSignupLoad == \E w \in Workers, e \in HashEmails, p \in Passwords :
                     signup_load(w, [email |-> e, password |-> p])
RaceSignupCommit == \E w \in Workers, id \in UserIds \ {u.id : u \in users}, salt \in Salts :
                     signup_commit(w, id, salt)
RaceSignin == \E e \in HashEmails, p \in Passwords : signin([email |-> e, password |-> p])
RaceClose == \E w \in Workers : Close(w)

NextRace == RaceSignupLoad \/ RaceSignupCommit \/ RaceSignin \/ RaceClose \/ Deliver

SpecRace == InitRace /\ [][NextRace]_vars

(* ============================ properties =============================== *)
TaskOps == {"list_tasks", "create_task", "get_task", "update_task", "delete_task",
            "toggle_complete"}
ItemOps == {"get_task", "update_task", "delete_task", "toggle_complete"}
ProtectedOps == TaskOps \cup {"get_current_user"}

\* the tasks a response carries in its body
Returned(r) ==
    IF r.result.kind = "task" THEN {r.result.task}
    ELSE IF r.result.kind = "tasks" THEN r.result.tasks
    ELSE {}

\* the request r answers carried no Bearer header and no session cookie
NoCredentials(r) == r.req.credentials = NoCred /\ r.req.cookies = NoCred

\* the token the request r answers presented: the header's, else the cookie's
Presented(r) == IF r.req.credentials # NoCred THEN r.req.credentials ELSE r.req.cookies

\* token is HS256-signed with the shared secret
SignedHS256(token) ==
    token.kind = "jwt" /\ token.alg = "HS256" /\ token.key = BETTER_AUTH_SECRET

\* token is properly signed, carries a subject and has not reached its expiry
ValidNow(token) ==
    /\ SignedHS256(token)
    /\ token.sub # None
    /\ (token.exp = NoClaim \/ now < token.exp)

\* C1: tenant isolation.  A task request whose validated token subject is A
\* leaves every task of another user in the table as it is, inserts or
\* changes only rows owned by A, and returns only tasks owned by A, whatever
\* path user_id and task_id it names.
C1_TenantIsolation ==
    [][ (resp = Idle /\ resp'.req.op \in TaskOps /\ resp'.auth.status = HTTP_200_OK) =>
            /\ \A t \in tasks : t.user_id # resp'.auth.user_id => t \in tasks'
            /\ \A t \in tasks' \ tasks : t.user_id = resp'.auth.user_id
            /\ \A t \in Returned(resp') : t.user_id = resp'.auth.user_id ]_vars

\* a delete by an authenticated user, on the user's own path, of an existing
\* task of somebody else has been answered
C1_Witness ==
    /\ resp.req.op = "delete_task"
    /\ resp.auth.status = HTTP_200_OK
    /\ resp.req.user_id = resp.auth.user_id
    /\ \E t \in tasks : t.id = resp.req.task_id /\ t.user_id # resp.auth.user_id

\* C2: on each of the six task endpoints a request with a valid token for A
\* and the path user_id B is answered 403 when A and B are not the same
\* string, and is let through (neither 401 nor 403) when they are.
C2_PathGuard ==
    (resp.req.op \in TaskOps /\ resp.auth.status = HTTP_200_OK) =>
        IF resp.req.user_id # resp.auth.user_id
            THEN resp.status = HTTP_403_FORBIDDEN
            ELSE resp.status \notin {HTTP_401_UNAUTHORIZED, HTTP_403_FORBIDDEN}

\* a valid token for u1 was used on the path "U1", which differs in case only
C2_Witness ==
    /\ resp.req.op = "update_task"
    /\ resp.auth.status = HTTP_200_OK
    /\ resp.auth.user_id = "u1"
    /\ resp.req.user_id = "U1"
    /\ resp.status = HTTP_403_FORBIDDEN

C10_NotOwned404 ==
    [][ ( /\ resp = Idle
          /\ resp'.req.op \in ItemOps
          /\ resp'.auth.status = HTTP_200_OK
          /\ resp'.req.user_id = resp'.auth.user_id
          /\ \E t \in tasks : t.id = resp'.req.task_id /\ t.user_id # resp'.auth.user_id ) =>
            /\ resp'.status = HTTP_404_NOT_FOUND
            /\ tasks' = tasks ]_vars

\* a toggle by U on U's path of an existing task of somebody else was answered
C10_Witness ==
    /\ resp.req.op = "toggle_complete"
    /\ resp.auth.status = HTTP_200_OK
    /\ resp.req.user_id = resp.auth.user_id
    /\ resp.status = HTTP_404_NOT_FOUND
    /\ \E t \in tasks : t.id = resp.req.task_id /\ t.user_id # resp.auth.user_id

\* C5: with a Bearer header and a session cookie in one request the header
\* token alone decides: its subject is the identity when it is valid, and the
\* request fails 401 when it is not, even if the cookie token is valid.  The
\* cookie token is used only when there is no Bearer header.
C5_HeaderWins ==
    resp.req.op \in ProtectedOps =>
        /\ resp.req.credentials # NoCred =>
              /\ resp.auth.token = resp.req.credentials
              /\ IF ValidNow(resp.req.credentials)
                    THEN resp.auth.status = HTTP_200_OK
                         /\ resp.auth.user_id = resp.req.credentials.sub
                    ELSE resp.status = HTTP_401_UNAUTHORIZED /\ ~resp.ran
        /\ (resp.req.credentials = NoCred /\ ValidNow(resp.req.cookies)) =>
              /\ resp.auth.status = HTTP_200_OK
              /\ resp.auth.user_id = resp.req.cookies.sub

\* an invalid header token came with a valid cookie token and was refused
C5_Witness ==
    /\ resp.req.op \in ProtectedOps
    /\ resp.req.credentials # NoCred
    /\ ~ValidNow(resp.req.credentials)
    /\ ValidNow(resp.req.cookies)
    /\ resp.status = HTTP_401_UNAUTHORIZED

\* C6: get_current_user_id yields an identity only for a token that is
\* HS256-signed with the shared secret, is not past its expiry and carries a
\* sub claim, and that identity is the sub claim; every other token is
\* answered 401 and the endpoint function is not entered.
C6_FailClosed ==
    (resp.req.op \in ProtectedOps /\ Presented(resp) \notin {NoCred, EmptyStr}) =>
        LET token == Presented(resp)
            good  == /\ SignedHS256(token)
                     /\ token.sub # None
                     /\ (token.exp = NoClaim \/ now <= token.exp)
        IN  /\ resp.auth.status = HTTP_200_OK => (good /\ resp.auth.user_id = token.sub)
            /\ ~good => (resp.status = HTTP_401_UNAUTHORIZED /\ ~resp.ran)

\* a token signed with another key was presented to create_task
C6_Witness ==
    /\ resp.req.op = "create_task"
    /\ Presented(resp).kind = "jwt"
    /\ Presented(resp).alg = "HS256"
    /\ Presented(resp).key # BETTER_AUTH_SECRET
    /\ resp.status = HTTP_401_UNAUTHORIZED

\* C7: a token returned by create_jwt_token(S) and presented before its
\* expiry is accepted by get_current_user_id and resolves to S.
C7_IssueThenValidate ==
    resp.req.op \in ProtectedOps =>
        \A i \in issued :
            (i.token = Presented(resp) /\ now < i.token.exp) =>
                (resp.auth.status = HTTP_200_OK /\ resp.auth.user_id = i.subject)

\* a token issued six days ago was presented in the cookie and accepted
C7_Witness ==
    /\ resp.req.op = "get_current_user"
    /\ resp.status = HTTP_200_OK
    /\ resp.req.credentials = NoCred
    /\ \E i \in issued : i.token = resp.req.cookies /\ now = i.at + 6

\* C8: a token issued at time t expires at t + 7 days; presented after that
\* time, in the header or in the cookie, it is refused with 401 "Token has
\* expired" on every protected endpoint.
C8_ExpiresAfterSevenDays ==
    \A i \in issued :
        /\ i.token.exp = i.at + 7
        /\ (resp.req.op \in ProtectedOps /\ Presented(resp) = i.token /\ now > i.at + 7) =>
              /\ resp.status = HTTP_401_UNAUTHORIZED
              /\ resp.detail = "Token has expired"
              /\ ~resp.ran

\* an issued token was presented in the cookie eight days after its issue
C8_Witness ==
    /\ resp.req.op = "toggle_complete"
    /\ resp.req.credentials = NoCred
    /\ \E i \in issued : i.token = resp.req.cookies /\ now = i.at + 8
    /\ resp.status = HTTP_401_UNAUTHORIZED

\* C9: no server-side revocation.  signout changes no table, and an issued
\* token presented before its expiry is accepted also after its user has
\* signed out and after later tokens have been issued to the same user.
C9_NoRevocation ==
    [][ /\ (resp = Idle /\ resp'.req.op = "signout") => UNCHANGED <<users, tasks, next_id>>
        /\ (resp = Idle /\ resp'.req.op \in ProtectedOps) =>
              \A i \in issued :
                  ( /\ i.token = Presented(resp')
                    /\ now < i.token.exp
                    /\ \/ i.subject \in signed_out
                       \/ \E j \in issued : j.subject = i.subject /\ j.at > i.at ) =>
                      resp'.auth.status = HTTP_200_OK ]_vars

\* a token was accepted after its user signed out and signed in again
C9_Witness ==
    /\ resp.req.op = "get_current_user"
    /\ resp.status = HTTP_200_OK
    /\ \E i \in issued :
          /\ i.token = Presented(resp)
          /\ i.subject \in signed_out
          /\ \E j \in issued : j.subject = i.subject /\ j.at > i.at

\* what a response shows to the client: the status and the body
Observable(r) == [status |-> r.status, detail |-> r.detail, result |-> r.result]

\* C11: for a caller U, the response to get / update / delete / toggle on a
\* task id owned by another user is the same, status and body, as the
\* response for a task id that is in nobody's hands: 404 "Task not found" with
\* no task in it, and the table is left as it was in both cases.
C11_ExistenceHidden ==
    [][ ( /\ resp = Idle
          /\ resp'.req.op \in ItemOps
          /\ resp'.auth.status = HTTP_200_OK
          /\ resp'.req.user_id = resp'.auth.user_id
          /\ \A t \in tasks : t.id = resp'.req.task_id => t.user_id # resp'.auth.user_id ) =>
            /\ Observable(resp') = [status |-> HTTP_404_NOT_FOUND, detail |-> "Task not found",
                                    result |-> NoResult]
            /\ tasks' = tasks ]_vars

\* a get by U on U's path of an existing task of somebody else was answered
\* while another task id is in nobody's hands
C11_Witness ==
    /\ resp.req.op = "get_task"
    /\ resp.auth.status = HTTP_200_OK
    /\ resp.req.user_id = resp.auth.user_id
    /\ \E t \in tasks : t.id = resp.req.task_id /\ t.user_id # resp.auth.user_id
    /\ \E i \in TaskIds : \A t \in tasks : t.id # i

\* the title a create or update body carries, None when it carries none
TitleSent(body) == IF "title" \in DOMAIN body.vals THEN body.vals.title ELSE None

\* C12: a create-task request whose title is the empty string is answered 422
\* and the tasks table is left as it was.
C12_EmptyTitleRejected ==
    [][ ( /\ resp = Idle
          /\ resp'.req.op = "create_task"
          /\ resp'.auth.status = HTTP_200_OK
          /\ TitleSent(resp'.req.body) = "" ) =>
            /\ resp'.status = HTTP_422_UNPROCESSABLE_ENTITY
            /\ tasks' = tasks ]_vars

\* C13: in every reachable state every persisted task has a title that is
\* present and not the empty string.
C13_TitlesNonEmpty == \A t \in tasks : t.title \notin {"", None}

\* the completed flag a create body asks for: false when it is left out
CompletedSent(body) ==
    IF "completed" \in DOMAIN body.vals THEN body.vals.completed ELSE FALSE

\* C14 as claimed: a successful create persists exactly one new task, owned by
\* the verified token subject and with completed false whatever the body, and
\* answers 201 with that task.
C14_Original ==
    [][ (resp = Idle /\ resp'.req.op = "create_task" /\ resp'.status = HTTP_201_CREATED) =>
            \E t \in tasks' \ tasks :
                /\ tasks' = tasks \cup {t}
                /\ t.user_id = resp'.auth.user_id
                /\ t.completed = FALSE
                /\ resp'.result = [kind |-> "task", task |-> t] ]_vars

\* C14: a successful create persists exactly one new task, owned by the
\* verified token subject and with the completed flag the body asks for (false
\* when the body leaves it out), and answers 201 with that task.
C14_CreatePersistsOne ==
    [][ (resp = Idle /\ resp'.req.op = "create_task" /\ resp'.status = HTTP_201_CREATED) =>
            \E t \in tasks' \ tasks :
                /\ tasks' = tasks \cup {t}
                /\ resp'.auth.status = HTTP_200_OK
                /\ t.user_id = resp'.auth.user_id
                /\ t.completed = CompletedSent(resp'.req.body)
                /\ resp'.result = [kind |-> "task", task |-> t] ]_vars

\* a create whose body asks for a completed task was answered 201 with it
C14_Witness ==
    /\ resp.req.op = "create_task"
    /\ resp.status = HTTP_201_CREATED
    /\ "completed" \in DOMAIN resp.req.body.vals
    /\ \E t \in tasks : t.completed /\ resp.result = [kind |-> "task", task |-> t]

\* C15 as claimed: in every reachable state the owner id of every persisted
\* task is the id of an existing User record.
C15_Original == \A t \in tasks : \E u \in users : u.id = t.user_id

\* C15: every persisted task has exactly one owner: it is the subject of the
\* verified token that created the task, whether or not the users table has a
\* record of that id, and no request changes it.
C15_OneOwner ==
    [][ /\ \A t \in tasks' : \A s \in tasks' : s.id = t.id => s = t
        /\ \A t \in tasks' : \A s \in tasks : s.id = t.id => s.user_id = t.user_id
        /\ \A t \in tasks' :
              (\A s \in tasks : s.id # t.id) =>
                  /\ resp'.req.op = "create_task"
                  /\ resp'.auth.status = HTTP_200_OK
                  /\ t.user_id = resp'.auth.user_id ]_vars

\* a task was created for a token subject of which the users table has no record
C15_Witness ==
    /\ resp.req.op = "create_task"
    /\ resp.status = HTTP_201_CREATED
    /\ \E t \in tasks :
          /\ resp.result = [kind |-> "task", task |-> t]
          /\ t.user_id = resp.auth.user_id
          /\ \A u \in users : u.id # t.user_id

\* C16: a list request by an authenticated user U on /api/{U}/tasks is
\* answered 200 with exactly the persisted tasks whose user_id is U.
C16_ListExact ==
    ( /\ resp.req.op = "list_tasks"
      /\ resp.auth.status = HTTP_200_OK
      /\ resp.req.user_id = resp.auth.user_id ) =>
        /\ resp.status = HTTP_200_OK
        /\ resp.result = [kind |-> "tasks",
                          tasks |-> {t \in tasks : t.user_id = resp.auth.user_id}]

\* U's list was answered while the table holds a task of somebody else
C16_Witness ==
    /\ resp.req.op = "list_tasks"
    /\ resp.status = HTTP_200_OK
    /\ resp.req.user_id = resp.auth.user_id
    /\ \E t \in tasks : t.user_id # resp.auth.user_id

\* the fields of a task a client can write
TaskUpdateFields == {"title", "description", "completed"}

\* C17: a successful PUT sets each of title, description and completed that
\* the body supplies to the supplied value and leaves every other field of the
\* task, but updated_at, at its prior value; the response carries the task.
C17_PartialUpdate ==
    [][ (resp = Idle /\ resp'.req.op = "update_task" /\ resp'.status = HTTP_200_OK) =>
            \E old \in tasks : \E new \in tasks' :
                /\ old.id = resp'.req.task_id
                /\ tasks' = (tasks \ {old}) \cup {new}
                /\ resp'.result = [kind |-> "task", task |-> new]
                /\ \A f \in DOMAIN old \ {"updated_at"} :
                      new[f] = IF f \in TaskUpdateFields /\ f \in DOMAIN resp'.req.body.vals
                                   THEN resp'.req.body.vals[f]
                               ELSE IF f \in TaskUpdateFields /\ f \in resp'.req.body.nulls
                                   THEN None
                               ELSE old[f] ]_vars

\* a PUT with only a description was answered 200 for a completed task
C17_Witness ==
    /\ resp.req.op = "update_task"
    /\ resp.status = HTTP_200_OK
    /\ resp.req.body = Fields([description |-> "d"], {})
    /\ \E t \in tasks :
          /\ resp.result = [kind |-> "task", task |-> t]
          /\ t.completed /\ t.title = "t1" /\ t.description = "d"

\* C18: a successful toggle yields the negation of the completed flag the
\* task had, and the second of two successive successful toggles of a task,
\* with no other write of the task in between, returns the flag to the value
\* it had before the first.
C18_ToggleTwice ==
    [][ (resp = Idle /\ resp'.req.op = "toggle_complete" /\ resp'.status = HTTP_200_OK) =>
            \E old \in tasks : \E new \in tasks' :
                /\ old.id = resp'.req.task_id /\ new.id = old.id
                /\ resp'.result = [kind |-> "task", task |-> new]
                /\ new.completed = ~old.completed
                /\ last_toggle'[new.id].toggles = 1 =>
                      new.completed = (last_toggle'[new.id].was = "open")
                /\ last_toggle'[new.id].toggles = 2 =>
                      new.completed = (last_toggle'[new.id].was = "done") ]_vars

\* the second of two successive toggles of a task that was completed before
\* the first has been answered
C18_Witness ==
    /\ resp.req.op = "toggle_complete"
    /\ resp.status = HTTP_200_OK
    /\ resp.req.task_id \in DOMAIN last_toggle
    /\ last_toggle[resp.req.task_id] = [was |-> "done", toggles |-> 2]
    /\ \E t \in tasks : t.id = resp.req.task_id /\ t.completed

\* the requests that write an existing task and keep it
WriteOps == {"update_task", "toggle_complete"}

\* C19 as claimed: every successful update or toggle of a task sets
\* updated_at to a value strictly greater than the one it had.
C19_Original ==
    [][ (resp = Idle /\ resp'.req.op \in WriteOps /\ resp'.status = HTTP_200_OK) =>
            \E old \in tasks : \E new \in tasks' :
                /\ old.id = resp'.req.task_id /\ new.id = old.id
                /\ new.updated_at > old.updated_at ]_vars

\* C19: every successful update or toggle of a task, whichever fields it
\* changes, sets updated_at to the reading of the clock at the request: a
\* value not less than the one the task had, and greater exactly when the
\* clock has advanced since the task was last written.
C19_UpdatedAtRefreshed ==
    [][ (resp = Idle /\ resp'.req.op \in WriteOps /\ resp'.status = HTTP_200_OK) =>
            \E old \in tasks : \E new \in tasks' :
                /\ old.id = resp'.req.task_id /\ new.id = old.id
                /\ resp'.result = [kind |-> "task", task |-> new]
                /\ new.updated_at = now
                /\ new.updated_at >= old.updated_at
                /\ new.updated_at > old.updated_at <=> now > old.updated_at
                /\ new.created_at = old.created_at ]_vars

\* an update with an empty body was answered for a task created at an earlier
\* reading of the clock
C19_Witness ==
    /\ resp.req.op = "update_task"
    /\ resp.status = HTTP_200_OK
    /\ resp.req.body = Fields(<<>>, {})
    /\ \E t \in tasks :
          /\ resp.result = [kind |-> "task", task |-> t]
          /\ t.updated_at = now /\ t.created_at < now

\* the task ids a delete was served for
Deleted == {i \in DOMAIN last_toggle : last_toggle[i].was = "deleted"}

\* C20: a delete answered 204 removes the task's row and nothing else, and
\* the removal is permanent: no later request brings a row of that id back,
\* a get, update, toggle or delete of the id by the former owner is answered
\* 404, and no list contains a task of that id.
C20_DeleteIsPermanent ==
    [][ /\ (resp = Idle /\ resp'.req.op = "delete_task" /\ resp'.status = HTTP_204_NO_CONTENT) =>
              /\ \E t \in tasks : t.id = resp'.req.task_id /\ tasks' = tasks \ {t}
              /\ \A t \in tasks' : t.id # resp'.req.task_id
              /\ resp'.req.task_id \in Deleted'
        /\ \A i \in Deleted : i \in Deleted' /\ \A t \in tasks' : t.id # i
        /\ (resp = Idle /\ resp'.req.op \in ItemOps /\ resp'.auth.status = HTTP_200_OK
              /\ resp'.req.user_id = resp'.auth.user_id /\ resp'.req.task_id \in Deleted) =>
              resp'.status = HTTP_404_NOT_FOUND
        /\ (resp = Idle /\ resp'.req.op = "list_tasks") =>
              \A t \in Returned(resp') : t.id \notin Deleted ]_vars

\* the former owner's second delete of a deleted task was answered 404
C20_Witness ==
    /\ resp.req.op = "delete_task"
    /\ resp.status = HTTP_404_NOT_FOUND
    /\ resp.req.task_id \in Deleted
    /\ \A t \in tasks : t.id # resp.req.task_id

\* C27: on the item endpoints the checks run in the order authentication,
\* path identity, existence and ownership: a request with no or invalid
\* credentials is answered 401 whatever the path user_id and the task id, and
\* a request with a valid token for A on the path of B, B not A, is answered
\* 403 whether or not the task id exists and whoever owns it.
C27_CheckOrder ==
    resp.req.op \in ItemOps =>
        LET token == Presented(resp) IN
        /\ (token \in {NoCred, EmptyStr} \/ ~SignedHS256(token) \/ token.sub = None) =>
              resp.status = HTTP_401_UNAUTHORIZED
        /\ (token \notin {NoCred, EmptyStr} /\ ValidNow(token) /\ token.sub # resp.req.user_id) =>
              resp.status = HTTP_403_FORBIDDEN

\* a get with a valid token for A on the path of B, of a task id no row has,
\* was answered 403
C27_Witness ==
    /\ resp.req.op = "get_task"
    /\ resp.auth.status = HTTP_200_OK
    /\ resp.req.user_id # resp.auth.user_id
    /\ resp.status = HTTP_403_FORBIDDEN
    /\ tasks # {}
    /\ \A t \in tasks : t.id # resp.req.task_id

\* C28: a task request answered 401, 403 or 404 leaves the tasks table
\* exactly as it was: the same rows with every field unchanged.
C28_ErrorsWriteNothing ==
    [][ ( /\ resp = Idle
          /\ resp'.req.op \in TaskOps
          /\ resp'.status \in {HTTP_401_UNAUTHORIZED, HTTP_403_FORBIDDEN, HTTP_404_NOT_FOUND} ) =>
            /\ tasks' = tasks
            /\ next_id' = next_id ]_vars

\* an update of an existing task of somebody else was answered 404
C28_Witness ==
    /\ resp.req.op = "update_task"
    /\ resp.status = HTTP_404_NOT_FOUND
    /\ resp.req.user_id = resp.auth.user_id
    /\ \E t \in tasks : t.id = resp.req.task_id /\ t.user_id # resp.auth.user_id

\* the requests that write or remove an existing task
MutationOps == {"update_task", "toggle_complete", "delete_task"}

\* C29: no request changes the id, the user_id or the created_at of a task;
\* a toggle changes only completed and updated_at of the task it names; an
\* update and a toggle keep the row of the task they name; and an update, a
\* toggle and a delete leave every other task in the table as it was.
C29_MutationFrame ==
    [][ /\ \A old \in tasks : \A new \in tasks' :
              old.id = new.id => (new.user_id = old.user_id /\ new.created_at = old.created_at)
        /\ (resp = Idle /\ resp'.req.op \in MutationOps) =>
              /\ \A t \in tasks : t.id # resp'.req.task_id => t \in tasks'
              /\ \A t \in tasks' : t.id # resp'.req.task_id => t \in tasks
        /\ (resp = Idle /\ resp'.req.op \in WriteOps) =>
              \A old \in tasks : \E new \in tasks' : new.id = old.id
        /\ (resp = Idle /\ resp'.req.op = "toggle_complete") =>
              \A old \in tasks : \A new \in tasks' :
                  old.id = new.id =>
                      \A f \in DOMAIN old \ {"completed", "updated_at"} : new[f] = old[f] ]_vars

\* a toggle of one task was answered while the table holds another task,
\* written at another time and left with another completed flag
C29_Witness ==
    /\ resp.req.op = "toggle_complete"
    /\ resp.status = HTTP_200_OK
    /\ \E t \in tasks : \E other \in tasks :
          /\ t.id = resp.req.task_id
          /\ other.id # t.id
          /\ other.completed # t.completed
          /\ other.updated_at < t.updated_at

\* C23: signup is answered 400 and leaves the users table as it was when the
\* email is already registered or the password has fewer than 6 characters;
\* otherwise it inserts exactly one user, with that email, and is answered
\* 201 with a token whose subject is the id of the new user.
C23_Signup ==
    [][ (resp = Idle /\ resp'.req.op = "signup") =>
            LET user_data == resp'.req.body IN
            IF (\E u \in users : u.email = user_data.email) \/ Len(user_data.password) < 6
                THEN /\ resp'.status = HTTP_400_BAD_REQUEST
                     /\ users' = users
                ELSE /\ resp'.status = HTTP_201_CREATED
                     /\ \E u \in users' \ users :
                           /\ users' = users \cup {u}
                           /\ u.email = user_data.email
                           /\ resp'.result.kind = "token"
                           /\ resp'.result.user_id = u.id
                           /\ resp'.result.token.sub = u.id ]_vars

\* a signup with a password of six characters was refused because its email
\* is registered
C23_Witness ==
    /\ resp.req.op = "signup"
    /\ resp.status = HTTP_400_BAD_REQUEST
    /\ Len(resp.req.body.password) = 6
    /\ \E u \in users : u.email = resp.req.body.email

\* the users of the given email whose stored hash was made from the password
Matching(credentials) ==
    {u \in users : /\ u.email = credentials.email
                   /\ \E salt \in Salts :
                         u.hashed_password = hash_password(credentials.password, salt)}

\* C24: signin is answered 200 exactly when a user of the given email exists
\* and the given password is the one that user's stored hash was made from,
\* and then returns a token whose subject is that user's id; an unknown email
\* and a wrong password are both answered 401 with the same detail; signin
\* never changes the users table.
C24_Signin ==
    [][ (resp = Idle /\ resp'.req.op = "signin") =>
            /\ users' = users
            /\ IF Matching(resp'.req.body) # {}
                  THEN /\ resp'.status = HTTP_200_OK
                       /\ resp'.result.kind = "token"
                       /\ \E u \in Matching(resp'.req.body) :
                             resp'.result.user_id = u.id /\ resp'.result.token.sub = u.id
                  ELSE /\ resp'.status = HTTP_401_UNAUTHORIZED
                       /\ resp'.detail = "Invalid email or password"
                       /\ resp'.result = NoResult ]_vars

\* a signin with the email of a user and another password was answered 401
C24_Witness ==
    /\ resp.req.op = "signin"
    /\ resp.status = HTTP_401_UNAUTHORIZED
    /\ \E u \in users : u.email = resp.req.body.email

\* C25: for all passwords P, verify_password(P, hash_password(P)) is true,
\* and for all Q other than P, verify_password(Q, hash_password(P)) is
\* false, the key derivation taken to be collision-free: whatever row holds
\* the value hash_password made from P, exactly P verifies against it.
C25_HashRoundTrip ==
    \A u \in users : \A P \in Passwords : \A salt \in Salts :
        u.hashed_password = hash_password(P, salt) =>
            \A Q \in Passwords : verify_password(Q, u.hashed_password) = Returns(Q = P)

\* a signin with another password than the one the stored value was made
\* from was refused, the row being one that hash_password wrote
C25_Witness ==
    /\ resp.req.op = "signin"
    /\ resp.status = HTTP_401_UNAUTHORIZED
    /\ \E u \in users : \E P \in Passwords : \E salt \in Salts :
          /\ u.email = resp.req.body.email
          /\ u.hashed_password = hash_password(P, salt)
          /\ P # resp.req.body.password

\* a stored value without a '$', with more than one '$', with a salt or a
\* hash that base64 cannot decode, or empty
Malformed(hashed_password) ==
    LET parts == split(hashed_password, Dollar) IN
    \/ hashed_password = <<>>
    \/ Len(parts) # 2
    \/ \E i \in 1 .. Len(parts) : \E k \in 1 .. Len(parts[i]) : parts[i][k] = LoneB64

\* C26: verify_password returns false and does not raise for every malformed
\* stored value, so that a signin against a user whose stored hash is
\* malformed is answered 401 and not with a server error.
C26_MalformedIsFalse ==
    /\ \A u \in users :
          Malformed(u.hashed_password) =>
              \A Q \in Passwords : verify_password(Q, u.hashed_password) = Returns(FALSE)
    /\ ( /\ resp.req.op = "signin"
         /\ \E u \in users : /\ u.email = resp.req.body.email
                             /\ Malformed(u.hashed_password) ) =>
            resp.status = HTTP_401_UNAUTHORIZED

\* a signin against a row whose stored hash does not decode was answered 401
C26_Witness ==
    /\ resp.req.op = "signin"
    /\ resp.status = HTTP_401_UNAUTHORIZED
    /\ \E u \in users :
          /\ u.email = resp.req.body.email
          /\ Len(split(u.hashed_password, Dollar)) = 2
          /\ Malformed(u.hashed_password)

\* worker w commits, in this step, the request of kind op it has loaded
Commits(w, op) ==
    /\ sessions[w].pc = "loaded"
    /\ sessions[w].op = op
    /\ sessions'[w].pc = "done"

\* C21: update and toggle read the task and write it back in two steps that
\* nothing serialises, and a toggle is lost under concurrency: when two
\* toggles have read the same row of a task and the first has committed, the
\* second succeeds as well and leaves the completed flag as the first set it,
\* flipped once from the value both have read.
C21_LostToggle ==
    [][ \A w \in DOMAIN sessions : \A v \in DOMAIN sessions :
          ( /\ w # v
            /\ Commits(w, "toggle_complete")
            /\ sessions[v].pc = "done"
            /\ sessions[v].op = "toggle_complete"
            /\ sessions[v].status = HTTP_200_OK
            /\ sessions[v].row = sessions[w].row
            /\ sessions[v].result = [kind |-> "task", task |-> session_get_task(sessions[w].row.id)] ) =>
              /\ sessions'[w].status = HTTP_200_OK
              /\ sessions'[w].result.kind = "task"
              /\ sessions'[w].result.task \in tasks'
              /\ sessions'[w].result.task.completed = sessions[v].result.task.completed
              /\ sessions'[w].result.task.completed = ~sessions[w].row.completed ]_vars

\* two toggles that read the same row were both answered 200 and the flag of
\* the task is the negation of the one they read
C21_Witness ==
    \E w \in DOMAIN sessions : \E v \in DOMAIN sessions :
        /\ w # v
        /\ sessions[w].pc = "done" /\ sessions[v].pc = "done"
        /\ sessions[w].op = "toggle_complete" /\ sessions[v].op = "toggle_complete"
        /\ sessions[w].status = HTTP_200_OK /\ sessions[v].status = HTTP_200_OK
        /\ sessions[w].row = sessions[v].row
        /\ \E t \in tasks : t.id = sessions[w].row.id /\ t.completed = ~sessions[w].row.completed

\* C30: once the delete of a task has committed the task stays absent: an
\* update or a toggle that loaded the task before the delete committed and
\* commits after it fails with a server error and writes nothing.
C30_NoResurrection ==
    [][ /\ \A i \in Deleted : \A t \in tasks' : t.id # i
        /\ \A w \in DOMAIN sessions :
              ( /\ sessions[w].pc = "loaded"
                /\ sessions[w].op \in WriteOps
                /\ sessions[w].row.id \in Deleted
                /\ sessions'[w].pc = "done" ) =>
                  /\ sessions'[w].status = HTTP_500_INTERNAL_SERVER_ERROR
                  /\ tasks' = tasks ]_vars

\* an update that had loaded the task before its delete committed has been
\* answered, the task being absent
C30_Witness ==
    \E w \in DOMAIN sessions :
        /\ sessions[w].pc = "done"
        /\ sessions[w].op = "update_task"
        /\ sessions[w].row # NoTask
        /\ sessions[w].row.id \in Deleted
        /\ \A t \in tasks : t.id # sessions[w].row.id

\* C22: in every reachable state, whatever the interleaving of signups for
\* the same email, no two users have the same email, and no step changes the
\* id of a user or removes a user.
C22_EmailUnique ==
    [][ /\ \A u \in users' : \A v \in users' : u.email = v.email => u = v
        /\ \A u \in users : \E v \in users' : v.email = u.email /\ v.id = u.id ]_vars

\* a signup that had found its email free was refused at its commit, another
\* signup for the email having committed in between
C22_Witness ==
    \E w \in DOMAIN sessions :
        /\ sessions[w].pc = "done"
        /\ sessions[w].op = "signup"
        /\ sessions[w].status = HTTP_500_INTERNAL_SERVER_ERROR
        /\ \E u \in users : u.email = sessions[w].body.email

====
